---- MODULE Spec2Model ----
(***************************************************************************)
(* Model of MeshtasticDataHandler (meshtastic_data_handler.py): the packet *)
(* normalizers, the dispatcher process_packet and the display formatters.  *)
(*                                                                         *)
(* Python values are tagged records, dictionaries are functions from key   *)
(* paths to values (Absent = key not in the dictionary), an exception is   *)
(* the name of its class, and a JSON text is a sequence of tokens that     *)
(* json.dumps writes and json.loads parses.                                *)
(***************************************************************************)
EXTENDS Integers, Sequences, FiniteSets, TLC

VARIABLES
    op,           \* the operation that ran last ("init" before any)
    packet,       \* the raw packet the operation was given
    packet_type,  \* the packet_type hint given to process_packet
    ret,          \* what a normalizer / _extract_metrics returned or raised
    outcome,      \* the exception that left process_packet / get_formatted_* ("" = returned)
    writes,       \* the store_node / store_message calls the storage collaborator saw in this call
    n_packets,    \* packets fed to process_packet so far
    n_good,       \* of these, the well-formed NODEINFO_APP / TEXT_MESSAGE_APP ones
    n_writes,     \* storage writes invoked so far
    loaded,       \* the strings load_messages / load_nodes returned
    shown,        \* what the display operation returned
    store_raised, \* what the storage collaborator raised in this call ("" = it returned)
    earlier       \* an earlier normalizer call, remembered for comparison

vars == <<op, packet, packet_type, ret, outcome, writes, n_packets, n_good,
          n_writes, loaded, shown, store_raised, earlier>>

(***************************************************************************)
(* Python values                                                           *)
(***************************************************************************)
Absent == [tag |-> "absent", n |-> 0, s |-> ""]
None   == [tag |-> "none",   n |-> 0, s |-> ""]
Map    == [tag |-> "map",    n |-> 0, s |-> ""]
PyInt(n)   == [tag |-> "int",   n |-> n, s |-> ""]
PyFloat(n) == [tag |-> "float", n |-> n, s |-> ""]
PyStr(s)   == [tag |-> "str",   n |-> 0, s |-> s]

\* The decimal numerals the model's strings and numbers range over.
Decimals == {<<0, "0">>, <<3, "3">>, <<5, "5">>, <<7, "7">>, <<9, "9">>, <<100, "100">>}
FloatReprs == {<<0, "0.0">>, <<3, "3.0">>, <<5, "5.0">>, <<7, "7.0">>, <<9, "9.0">>, <<100, "100.0">>}

IsNumeral(s) == \E d \in Decimals : d[2] = s
NumeralValue(s) == (CHOOSE d \in Decimals : d[2] = s)[1]
Repr(table, n) == IF \E d \in table : d[1] = n
                  THEN (CHOOSE d \in table : d[1] = n)[2]
                  ELSE "?"

\* The result of evaluating an expression: a value, or the exception raised.
Ok(v)      == [exc |-> "", val |-> v]
Raise(cls) == [exc |-> cls, val |-> Absent]

\* int(v)
py_int(v) ==
    CASE v.tag = "int"   -> Ok(v)
      [] v.tag = "float" -> Ok(PyInt(v.n))
      [] v.tag = "str"   -> IF IsNumeral(v.s) THEN Ok(PyInt(NumeralValue(v.s)))
                                              ELSE Raise("ValueError")
      [] OTHER           -> Raise("TypeError")

\* float(v)
py_float(v) ==
    CASE v.tag = "int"   -> Ok(PyFloat(v.n))
      [] v.tag = "float" -> Ok(v)
      [] v.tag = "str"   -> IF IsNumeral(v.s) THEN Ok(PyFloat(NumeralValue(v.s)))
                                              ELSE Raise("ValueError")
      [] OTHER           -> Raise("TypeError")

\* str(v): never raises
py_str(v) ==
    CASE v.tag = "str"   -> Ok(v)
      [] v.tag = "int"   -> Ok(PyStr(Repr(Decimals, v.n)))
      [] v.tag = "float" -> Ok(PyStr(Repr(FloatReprs, v.n)))
      [] v.tag = "none"  -> Ok(PyStr("None"))
      [] OTHER           -> Ok(PyStr("{...}"))

(***************************************************************************)
(* Dictionaries: the raw packet                                            *)
(***************************************************************************)
\* Each key path of a raw packet with its parent dictionary ("" = the packet).
PacketKeys == {
    <<"from", "">>, <<"fromId", "">>, <<"to", "">>, <<"toId", "">>,
    <<"decoded", "">>, <<"rxTime", "">>, <<"rxSnr", "">>, <<"rxRssi", "">>,
    <<"hopLimit", "">>, <<"raw", "">>,
    <<"decoded.portnum", "decoded">>, <<"decoded.text", "decoded">>,
    <<"decoded.user", "decoded">>, <<"decoded.telemetry", "decoded">>,
    <<"decoded.user.id", "decoded.user">>, <<"decoded.user.longName", "decoded.user">>,
    <<"decoded.user.shortName", "decoded.user">>, <<"decoded.user.macaddr", "decoded.user">>,
    <<"decoded.user.hwModel", "decoded.user">>, <<"decoded.user.raw", "decoded.user">>,
    <<"decoded.telemetry.deviceMetrics", "decoded.telemetry">>,
    <<"decoded.telemetry.deviceMetrics.batteryLevel", "decoded.telemetry.deviceMetrics">>,
    <<"decoded.telemetry.deviceMetrics.voltage", "decoded.telemetry.deviceMetrics">>,
    <<"decoded.telemetry.deviceMetrics.channelUtilization", "decoded.telemetry.deviceMetrics">>,
    <<"decoded.telemetry.deviceMetrics.airUtilTx", "decoded.telemetry.deviceMetrics">>,
    <<"decoded.telemetry.deviceMetrics.uptimeSeconds", "decoded.telemetry.deviceMetrics">> }

PacketPaths == {k[1] : k \in PacketKeys}
ParentOf(keys, path) == (CHOOSE k \in keys : k[1] = path)[2]

\* d[...][key]: subscripting along the path, as Python evaluates it left to right.
\* A missing key raises KeyError, subscripting a value that is no dictionary
\* raises TypeError.
RECURSIVE Subscript(_, _, _)
Subscript(keys, d, path) ==
    LET parent == ParentOf(keys, path)
        up     == IF parent = "" THEN Ok(Map) ELSE Subscript(keys, d, parent)
    IN  IF up.exc # "" THEN up
        ELSE IF up.val.tag # "map" THEN Raise("TypeError")
        ELSE IF d[path].tag = "absent" THEN Raise("KeyError")
        ELSE Ok(d[path])

\* d.get(key, default) on the packet itself
Get(d, path, default) == IF d[path].tag = "absent" THEN default ELSE d[path]

\* The first exception of a sequence of evaluations, "" when none raised.
RECURSIVE FirstExc(_)
FirstExc(rs) ==
    IF rs = <<>> THEN ""
    ELSE IF Head(rs).exc # "" THEN Head(rs).exc
    ELSE FirstExc(Tail(rs))

(***************************************************************************)
(* Dictionaries: the typed records                                         *)
(***************************************************************************)
\* Each key path of a record, its parent dictionary and its key, in the
\* order the normalizers insert the keys (the order json.dumps writes them).
RecordKeys == <<
    <<"type", "", "type">>, <<"timestamp", "", "timestamp">>,
    <<"from_num", "", "from_num">>, <<"from_id", "", "from_id">>,
    <<"to_num", "", "to_num">>, <<"to_id", "", "to_id">>, <<"text", "", "text">>,
    <<"user", "", "user">>,
    <<"user.id", "user", "id">>, <<"user.long_name", "user", "long_name">>,
    <<"user.short_name", "user", "short_name">>, <<"user.macaddr", "user", "macaddr">>,
    <<"user.hw_model", "user", "hw_model">>, <<"user.raw", "user", "raw">>,
    <<"device_metrics", "", "device_metrics">>,
    <<"device_metrics.battery_level", "device_metrics", "battery_level">>,
    <<"device_metrics.voltage", "device_metrics", "voltage">>,
    <<"device_metrics.channel_utilization", "device_metrics", "channel_utilization">>,
    <<"device_metrics.air_util_tx", "device_metrics", "air_util_tx">>,
    <<"device_metrics.uptime_seconds", "device_metrics", "uptime_seconds">>,
    <<"metrics", "", "metrics">>,
    <<"metrics.rx_time", "metrics", "rx_time">>, <<"metrics.rx_snr", "metrics", "rx_snr">>,
    <<"metrics.rx_rssi", "metrics", "rx_rssi">>, <<"metrics.hop_limit", "metrics", "hop_limit">>,
    <<"raw", "", "raw">> >>

RecordPaths == {RecordKeys[i][1] : i \in DOMAIN RecordKeys}
NoRecord == [p \in RecordPaths |-> Absent]

\* What a normalizer does: return a record, or raise.
Return(rec) == [exc |-> "", rec |-> rec]
Raises(cls) == [exc |-> cls, rec |-> NoRecord]

(***************************************************************************)
(* validate_typed_dict and the shapes of meshtastic_types                  *)
(***************************************************************************)
Field(path, kind, required, literals) ==
    [path |-> path, kind |-> kind, required |-> required, literals |-> literals]

MetricsShape == {
    Field("metrics", "map", TRUE, {}),
    Field("metrics.rx_time", "int", TRUE, {}),
    Field("metrics.rx_snr", "float", FALSE, {}),
    Field("metrics.rx_rssi", "int", FALSE, {}),
    Field("metrics.hop_limit", "int", TRUE, {}) }

UserInfoShape == {
    Field("user", "map", TRUE, {}),
    Field("user.id", "str", TRUE, {}),
    Field("user.long_name", "str", TRUE, {}),
    Field("user.short_name", "str", TRUE, {}),
    Field("user.macaddr", "str", TRUE, {}),
    Field("user.hw_model", "str", TRUE, {}),
    Field("user.raw", "str", TRUE, {}) }

CommonShape(type) == {
    Field("type", "str", TRUE, {type}),
    Field("timestamp", "str", TRUE, {}),
    Field("from_num", "int", TRUE, {}),
    Field("from_id", "str", TRUE, {}),
    Field("raw", "str", TRUE, {}) }

NodeInfo == CommonShape("nodeinfo") \cup UserInfoShape \cup MetricsShape

TextMessage == CommonShape("text") \cup MetricsShape \cup {
    Field("to_num", "int", TRUE, {}),
    Field("to_id", "str", TRUE, {}),
    Field("text", "str", TRUE, {}) }

DeviceTelemetry == CommonShape("device_telemetry") \cup MetricsShape \cup {
    Field("device_metrics", "map", TRUE, {}),
    Field("device_metrics.battery_level", "int", TRUE, {}),
    Field("device_metrics.voltage", "float", TRUE, {}),
    Field("device_metrics.channel_utilization", "float", TRUE, {}),
    Field("device_metrics.air_util_tx", "float", TRUE, {}),
    Field("device_metrics.uptime_seconds", "int", TRUE, {}) }

\* A required field is present with the declared type (and, for a literal
\* set, one of its values); an optional field may also be absent or None.
FieldAccepted(rec, f) ==
    LET v == rec[f.path]
    IN  \/ ~f.required /\ v.tag \in {"absent", "none"}
        \/ /\ v.tag = f.kind
           /\ f.literals # {} => v.s \in f.literals

\* validate_typed_dict(rec, shape): the exception it raises, "" when it accepts
validate_typed_dict(rec, shape) ==
    IF \A f \in shape : FieldAccepted(rec, f) THEN "" ELSE "ValueError"

(***************************************************************************)
(* The normalizers                                                         *)
(***************************************************************************)
DefaultHopLimit == 3
DefaultSignal == 0

\* packet[...] coerced
IntOf(pkt, path) ==
    LET item == Subscript(PacketKeys, pkt, path)
    IN  IF item.exc # "" THEN item ELSE py_int(item.val)
FloatOf(pkt, path) ==
    LET item == Subscript(PacketKeys, pkt, path)
    IN  IF item.exc # "" THEN item ELSE py_float(item.val)
StrOf(pkt, path) ==
    LET item == Subscript(PacketKeys, pkt, path)
    IN  IF item.exc # "" THEN item ELSE py_str(item.val)

\* Mutant: rx_snr and rx_rssi default to 0, as the embedded metrics do.
_extract_metrics_ZeroDefault(pkt) ==
    LET rx_time == Subscript(PacketKeys, pkt, "rxTime")
    IN  IF rx_time.exc # "" THEN Raises(rx_time.exc)
        ELSE Return(("metrics" :> Map)
                    @@ ("metrics.rx_time" :> rx_time.val)
                    @@ ("metrics.rx_snr" :> Get(pkt, "rxSnr", PyInt(DefaultSignal)))
                    @@ ("metrics.rx_rssi" :> Get(pkt, "rxRssi", PyInt(DefaultSignal)))
                    @@ ("metrics.hop_limit" :> Get(pkt, "hopLimit", PyInt(DefaultHopLimit)))
                    @@ NoRecord)

\* Mutant: rxTime is read with get, like the optional keys.
_extract_metrics_GetRxTime(pkt) ==
    Return(("metrics" :> Map)
           @@ ("metrics.rx_time" :> Get(pkt, "rxTime", None))
           @@ ("metrics.rx_snr" :> Get(pkt, "rxSnr", None))
           @@ ("metrics.rx_rssi" :> Get(pkt, "rxRssi", None))
           @@ ("metrics.hop_limit" :> Get(pkt, "hopLimit", PyInt(DefaultHopLimit)))
           @@ NoRecord)

\* _extract_metrics(packet): rxTime is subscripted, the others are read with
\* get; nothing is coerced.
_extract_metrics(pkt) ==
    LET rx_time == Subscript(PacketKeys, pkt, "rxTime")
    IN  IF rx_time.exc # "" THEN Raises(rx_time.exc)
        ELSE Return(("metrics" :> Map)
                    @@ ("metrics.rx_time" :> rx_time.val)
                    @@ ("metrics.rx_snr" :> Get(pkt, "rxSnr", None))
                    @@ ("metrics.rx_rssi" :> Get(pkt, "rxRssi", None))
                    @@ ("metrics.hop_limit" :> Get(pkt, "hopLimit", PyInt(DefaultHopLimit)))
                    @@ NoRecord)

\* Mutant: rxSnr and rxRssi are subscripted, so a packet without them raises.
EmbeddedMetrics_Subscripted(pkt) ==
    << IntOf(pkt, "rxTime"),
       FloatOf(pkt, "rxSnr"),
       IntOf(pkt, "rxRssi"),
       py_int(Get(pkt, "hopLimit", PyInt(DefaultHopLimit))) >>

\* The metrics dictionary _process_nodeinfo and _process_textmessage build
\* in place: every entry coerced, rxSnr and rxRssi defaulting to 0.
EmbeddedMetrics(pkt) ==
    << IntOf(pkt, "rxTime"),
       py_float(Get(pkt, "rxSnr", PyInt(DefaultSignal))),
       py_int(Get(pkt, "rxRssi", PyInt(DefaultSignal))),
       py_int(Get(pkt, "hopLimit", PyInt(DefaultHopLimit))) >>

\* A record is built from the evaluations of its entries, in order; the first
\* one that raises aborts the construction. The built record is validated
\* and returned only when the validator accepts it.
Build(evals, rec, shape) ==
    IF FirstExc(evals) # "" THEN Raises(FirstExc(evals))
    ELSE IF validate_typed_dict(rec, shape) # "" THEN Raises(validate_typed_dict(rec, shape))
    ELSE Return(rec)

\* dict[key] = value, written key :> value, and the dictionary display as a
\* chain of them over the empty record.
Entry(path, r) == path :> r.val

\* _process_nodeinfo(packet), with `now` what datetime.now().isoformat() gives
_process_nodeinfo(pkt, now) ==
    LET user == Subscript(PacketKeys, pkt, "decoded.user")
        user_info == IF user.exc # "" THEN user
                     ELSE IF user.val.tag # "map" THEN Raise("TypeError")
                     ELSE user
        from_num == IntOf(pkt, "from")
        from_id == StrOf(pkt, "fromId")
        id == StrOf(pkt, "decoded.user.id")
        long_name == StrOf(pkt, "decoded.user.longName")
        short_name == StrOf(pkt, "decoded.user.shortName")
        macaddr == StrOf(pkt, "decoded.user.macaddr")
        hw_model == StrOf(pkt, "decoded.user.hwModel")
        user_raw == StrOf(pkt, "decoded.user.raw")
        m == EmbeddedMetrics(pkt)
        raw == StrOf(pkt, "raw")
        node_info ==
            ("type" :> PyStr("nodeinfo")) @@ ("timestamp" :> PyStr(now))
            @@ Entry("from_num", from_num) @@ Entry("from_id", from_id)
            @@ ("user" :> Map)
            @@ Entry("user.id", id) @@ Entry("user.long_name", long_name)
            @@ Entry("user.short_name", short_name) @@ Entry("user.macaddr", macaddr)
            @@ Entry("user.hw_model", hw_model) @@ Entry("user.raw", user_raw)
            @@ ("metrics" :> Map)
            @@ Entry("metrics.rx_time", m[1]) @@ Entry("metrics.rx_snr", m[2])
            @@ Entry("metrics.rx_rssi", m[3]) @@ Entry("metrics.hop_limit", m[4])
            @@ Entry("raw", raw) @@ NoRecord
    IN  Build(<<user_info, from_num, from_id, id, long_name, short_name, macaddr,
                hw_model, user_raw, m[1], m[2], m[3], m[4], raw>>,
              node_info, NodeInfo)

\* Mutant: the time of normalization leaks into the raw field.
_process_textmessage_StampedRaw(pkt, now) ==
    LET from_num == IntOf(pkt, "from")
        from_id == StrOf(pkt, "fromId")
        to_num == IntOf(pkt, "to")
        to_id == StrOf(pkt, "toId")
        text == StrOf(pkt, "decoded.text")
        m == EmbeddedMetrics(pkt)
        raw == StrOf(pkt, "raw")
        text_message ==
            ("type" :> PyStr("text")) @@ ("timestamp" :> PyStr(now))
            @@ Entry("from_num", from_num) @@ Entry("from_id", from_id)
            @@ Entry("to_num", to_num) @@ Entry("to_id", to_id)
            @@ Entry("text", text)
            @@ ("metrics" :> Map)
            @@ Entry("metrics.rx_time", m[1]) @@ Entry("metrics.rx_snr", m[2])
            @@ Entry("metrics.rx_rssi", m[3]) @@ Entry("metrics.hop_limit", m[4])
            @@ ("raw" :> PyStr(now)) @@ NoRecord
    IN  Build(<<from_num, from_id, to_num, to_id, text, m[1], m[2], m[3], m[4], raw>>,
              text_message, TextMessage)

\* _process_textmessage(packet)
_process_textmessage(pkt, now) ==
    LET from_num == IntOf(pkt, "from")
        from_id == StrOf(pkt, "fromId")
        to_num == IntOf(pkt, "to")
        to_id == StrOf(pkt, "toId")
        text == StrOf(pkt, "decoded.text")
        m == EmbeddedMetrics(pkt)
        raw == StrOf(pkt, "raw")
        text_message ==
            ("type" :> PyStr("text")) @@ ("timestamp" :> PyStr(now))
            @@ Entry("from_num", from_num) @@ Entry("from_id", from_id)
            @@ Entry("to_num", to_num) @@ Entry("to_id", to_id)
            @@ Entry("text", text)
            @@ ("metrics" :> Map)
            @@ Entry("metrics.rx_time", m[1]) @@ Entry("metrics.rx_snr", m[2])
            @@ Entry("metrics.rx_rssi", m[3]) @@ Entry("metrics.hop_limit", m[4])
            @@ Entry("raw", raw) @@ NoRecord
    IN  Build(<<from_num, from_id, to_num, to_id, text, m[1], m[2], m[3], m[4], raw>>,
              text_message, TextMessage)

\* _process_device_telemetry(packet)
_process_device_telemetry(pkt, now) ==
    LET telemetry == Subscript(PacketKeys, pkt, "decoded.telemetry")
        from_num == IntOf(pkt, "from")
        from_id == StrOf(pkt, "fromId")
        battery_level == IntOf(pkt, "decoded.telemetry.deviceMetrics.batteryLevel")
        voltage == FloatOf(pkt, "decoded.telemetry.deviceMetrics.voltage")
        device_metrics == Subscript(PacketKeys, pkt, "decoded.telemetry.deviceMetrics")
        channel_utilization ==
            IF device_metrics.exc # "" THEN device_metrics
            ELSE IF device_metrics.val.tag # "map" THEN Raise("TypeError")
            ELSE py_float(Get(pkt, "decoded.telemetry.deviceMetrics.channelUtilization",
                              PyFloat(0)))
        air_util_tx == FloatOf(pkt, "decoded.telemetry.deviceMetrics.airUtilTx")
        uptime_seconds == IntOf(pkt, "decoded.telemetry.deviceMetrics.uptimeSeconds")
        metrics == _extract_metrics(pkt)
        raw == StrOf(pkt, "raw")
        device_telemetry ==
            ("type" :> PyStr("device_telemetry")) @@ ("timestamp" :> PyStr(now))
            @@ Entry("from_num", from_num) @@ Entry("from_id", from_id)
            @@ ("device_metrics" :> Map)
            @@ Entry("device_metrics.battery_level", battery_level)
            @@ Entry("device_metrics.voltage", voltage)
            @@ Entry("device_metrics.channel_utilization", channel_utilization)
            @@ Entry("device_metrics.air_util_tx", air_util_tx)
            @@ Entry("device_metrics.uptime_seconds", uptime_seconds)
            @@ [p \in {"metrics", "metrics.rx_time", "metrics.rx_snr", "metrics.rx_rssi",
                       "metrics.hop_limit"} |-> metrics.rec[p]]
            @@ Entry("raw", raw) @@ NoRecord
    IN  Build(<<telemetry, from_num, from_id, battery_level, voltage, channel_utilization,
                air_util_tx, uptime_seconds, [exc |-> metrics.exc, val |-> Map], raw>>,
              device_telemetry, DeviceTelemetry)

(***************************************************************************)
(* JSON: json.dumps and json.loads                                         *)
(***************************************************************************)
\* A JSON text is the sequence of its tokens (commas and colons left out).
Tok(t, s, n) == [t |-> t, s |-> s, n |-> n]
LBrace == Tok("{", "", 0)
RBrace == Tok("}", "", 0)
KeyTok(k) == Tok("key", k, 0)
ScalarTypes == {"str", "int", "float", "null"}

ScalarTok(v) ==
    CASE v.tag = "str"   -> Tok("str", v.s, 0)
      [] v.tag = "int"   -> Tok("int", "", v.n)
      [] v.tag = "float" -> Tok("float", "", v.n)
      [] OTHER           -> Tok("null", "", 0)

ScalarVal(tok) ==
    CASE tok.t = "str"   -> PyStr(tok.s)
      [] tok.t = "int"   -> PyInt(tok.n)
      [] tok.t = "float" -> PyFloat(tok.n)
      [] OTHER           -> None

\* The members of the dictionary at `parent`, from the i-th key on, in
\* insertion order; a nested dictionary is written between its own braces.
RECURSIVE Members(_, _, _)
Members(rec, parent, i) ==
    IF i > Len(RecordKeys) THEN <<>>
    ELSE LET k == RecordKeys[i]
             v == rec[k[1]]
         IN  IF k[2] # parent \/ v.tag = "absent" THEN Members(rec, parent, i + 1)
             ELSE <<KeyTok(k[3])>>
                  \o (IF v.tag = "map"
                      THEN <<LBrace>> \o Members(rec, k[1], 1) \o <<RBrace>>
                      ELSE <<ScalarTok(v)>>)
                  \o Members(rec, parent, i + 1)

\* json.dumps(rec)
json_dumps(rec) == <<LBrace>> \o Members(rec, "", 1) \o <<RBrace>>

\* The path of key `key` in the dictionary at `parent` ("?" for a key no
\* record has: its value is parsed and dropped, nothing reads it).
PathFor(parent, key) ==
    IF \E i \in DOMAIN RecordKeys : RecordKeys[i][2] = parent /\ RecordKeys[i][3] = key
    THEN RecordKeys[CHOOSE i \in DOMAIN RecordKeys :
                        RecordKeys[i][2] = parent /\ RecordKeys[i][3] = key][1]
    ELSE "?"

Store(data, path, v) == IF path \in DOMAIN data THEN [data EXCEPT ![path] = v] ELSE data

ParseStart == [st |-> "start", stack |-> <<>>, key |-> "", top |-> "scalar",
               data |-> NoRecord, val |-> None]

\* One token read by the parser.
ParseStep(ps, tok) ==
    CASE ps.st = "start" /\ tok.t = "{" ->
            [ps EXCEPT !.st = "member", !.stack = <<"">>, !.top = "object"]
      [] ps.st = "start" /\ tok.t \in ScalarTypes ->
            [ps EXCEPT !.st = "end", !.val = ScalarVal(tok)]
      [] ps.st = "member" /\ tok.t = "key" ->
            [ps EXCEPT !.st = "value", !.key = PathFor(Head(ps.stack), tok.s)]
      [] ps.st = "member" /\ tok.t = "}" ->
            [ps EXCEPT !.st = IF Len(ps.stack) = 1 THEN "end" ELSE "member",
                       !.stack = Tail(ps.stack)]
      [] ps.st = "value" /\ tok.t = "{" ->
            [ps EXCEPT !.st = "member", !.stack = <<ps.key>> \o ps.stack,
                       !.data = Store(ps.data, ps.key, Map)]
      [] ps.st = "value" /\ tok.t \in ScalarTypes ->
            [ps EXCEPT !.st = "member", !.data = Store(ps.data, ps.key, ScalarVal(tok))]
      [] OTHER -> [ps EXCEPT !.st = "error"]

RECURSIVE Parse(_, _)
Parse(ps, toks) == IF toks = <<>> THEN ps ELSE Parse(ParseStep(ps, Head(toks)), Tail(toks))

\* json.loads(text): the parsed value, or JSONDecodeError
json_loads(text) ==
    LET ps == Parse(ParseStart, text)
    IN  IF ps.st = "end"
        THEN [exc |-> "", top |-> ps.top, data |-> ps.data, val |-> ps.val]
        ELSE [exc |-> "JSONDecodeError", top |-> "scalar", data |-> NoRecord, val |-> None]

(***************************************************************************)
(* Exceptions                                                              *)
(***************************************************************************)
\* The classes an `except cls` clause catches.
Catches(cls) ==
    CASE cls = "Exception"       -> {"KeyError", "TypeError", "ValueError",
                                     "JSONDecodeError", "ConnectionError"}
      [] cls = "ValueError"      -> {"ValueError", "JSONDecodeError"}
      [] OTHER                   -> {cls}

\* Mutant: the except clause is for ValueError, whatever class it names.
Swallow_ValueErrorOnly(cls, exc) == IF exc \in {"ValueError", "JSONDecodeError"} THEN "" ELSE exc

\* What leaves a try block whose body raised exc and whose except clause
\* (for cls) swallows what it catches.
Swallow(cls, exc) == IF exc \in Catches(cls) THEN "" ELSE exc

(***************************************************************************)
(* The dispatcher                                                          *)
(***************************************************************************)
StoreCall(name, data) == [store |-> name, data |-> data]

\* Mutant: the store is called with whatever was built, before the
\* normalizer's failure is looked at.
Route_StoreUnchecked(processed, store, store_exc) ==
    [exc |-> IF processed.exc # "" THEN processed.exc ELSE store_exc,
     writes |-> <<StoreCall(store, json_dumps(processed.rec))>>]

\* Mutant: the record is handed to the store a second time.
Route_StoreTwice(processed, store, store_exc) ==
    IF processed.exc # "" THEN [exc |-> processed.exc, writes |-> <<>>]
    ELSE [exc |-> store_exc,
          writes |-> <<StoreCall(store, json_dumps(processed.rec)),
                       StoreCall(store, json_dumps(processed.rec))>>]

\* normalize, then hand the serialized record to the store; store_exc is
\* what the storage collaborator raises ("" when it returns).
Route(processed, store, store_exc) ==
    IF processed.exc # "" THEN [exc |-> processed.exc, writes |-> <<>>]
    ELSE [exc |-> store_exc, writes |-> <<StoreCall(store, json_dumps(processed.rec))>>]

\* Mutant: the packet_type hint decides the route.
process_packet_ByHint(pkt, hint, now, store_exc) ==
    LET portnum == Subscript(PacketKeys, pkt, "decoded.portnum")
        body ==
            IF portnum.exc # "" THEN [exc |-> portnum.exc, writes |-> <<>>]
            ELSE IF hint = "node"
                 THEN Route(_process_nodeinfo(pkt, now), "store_node", store_exc)
            ELSE IF hint = "text"
                 THEN Route(_process_textmessage(pkt, now), "store_message", store_exc)
            ELSE [exc |-> "", writes |-> <<>>]
    IN  [exc |-> Swallow("Exception", body.exc), writes |-> body.writes]

\* process_packet(packet, packet_type): the exception that leaves it ("" when
\* it returns) and the storage calls it made.
process_packet(pkt, hint, now, store_exc) ==
    LET portnum == Subscript(PacketKeys, pkt, "decoded.portnum")
        body ==
            IF portnum.exc # "" THEN [exc |-> portnum.exc, writes |-> <<>>]
            ELSE IF portnum.val = PyStr("NODEINFO_APP")
                 THEN Route(_process_nodeinfo(pkt, now), "store_node", store_exc)
            ELSE IF portnum.val = PyStr("TEXT_MESSAGE_APP")
                 THEN Route(_process_textmessage(pkt, now), "store_message", store_exc)
            ELSE [exc |-> "", writes |-> <<>>]
    IN  [exc |-> Swallow("Exception", body.exc), writes |-> body.writes]

(***************************************************************************)
(* The display formatters                                                  *)
(***************************************************************************)
RecordKeyPairs == {<<RecordKeys[i][1], RecordKeys[i][2]>> : i \in DOMAIN RecordKeys}

DisplayKeys == {"timestamp", "from", "to", "text", "id", "name"}
NoDisplay == [k \in DisplayKeys |-> Absent]

\* data[...][key] on a parsed JSON value: a value that is no object cannot
\* be subscripted by a string.
Item(parsed, path) ==
    IF parsed.top # "object" THEN Raise("TypeError")
    ELSE Subscript(RecordKeyPairs, parsed.data, path)

\* The projection built from the evaluations of its entries: kes is a
\* sequence of <<display key, evaluation>>.
Projection(kes) ==
    LET exc == FirstExc([i \in DOMAIN kes |-> kes[i][2]])
    IN  IF exc # "" THEN [exc |-> exc, none |-> FALSE, proj |-> NoDisplay]
        ELSE [exc |-> "", none |-> FALSE,
              proj |-> [k \in DisplayKeys |->
                          IF \E i \in DOMAIN kes : kes[i][1] = k
                          THEN kes[CHOOSE i \in DOMAIN kes : kes[i][1] = k][2].val
                          ELSE Absent]]

\* try: <projection> except JSONDecodeError: return None
Formatted(data, kes) ==
    IF data.exc # ""
    THEN [exc |-> Swallow("JSONDecodeError", data.exc), none |-> TRUE, proj |-> NoDisplay]
    ELSE Projection(kes)

\* Mutant: from and to are taken from each other's field.
format_message_for_display_Swapped(json_str) ==
    LET data == json_loads(json_str)
    IN  Formatted(data, << <<"timestamp", Item(data, "timestamp")>>,
                           <<"from", Item(data, "to_id")>>,
                           <<"to", Item(data, "from_id")>>,
                           <<"text", Item(data, "text")>> >>)

\* format_message_for_display(json_str)
format_message_for_display(json_str) ==
    LET data == json_loads(json_str)
    IN  Formatted(data, << <<"timestamp", Item(data, "timestamp")>>,
                           <<"from", Item(data, "from_id")>>,
                           <<"to", Item(data, "to_id")>>,
                           <<"text", Item(data, "text")>> >>)

\* format_node_for_display(json_str)
format_node_for_display(json_str) ==
    LET data == json_loads(json_str)
    IN  Formatted(data, << <<"timestamp", Item(data, "timestamp")>>,
                           <<"id", Item(data, "from_id")>>,
                           <<"name", Item(data, "user.long_name")>> >>)

\* The loop of get_formatted_messages / get_formatted_nodes over the loaded
\* strings: a formatter that raises ends the call, one that returns None is
\* skipped, any other result is appended.
Format(name, json_str) ==
    IF name = "get_formatted_messages" THEN format_message_for_display(json_str)
    ELSE format_node_for_display(json_str)

RECURSIVE FormatAll(_, _)
FormatAll(name, items) ==
    IF items = <<>> THEN [exc |-> "", formatted |-> <<>>]
    ELSE LET first == Format(name, Head(items))
             rest  == FormatAll(name, Tail(items))
         IN  IF first.exc # "" THEN [exc |-> first.exc, formatted |-> <<>>]
             ELSE IF rest.exc # "" THEN rest
             ELSE [exc |-> "",
                   formatted |-> (IF first.none THEN <<>> ELSE <<first.proj>>) \o rest.formatted]

get_formatted_messages(messages) == FormatAll("get_formatted_messages", messages)
get_formatted_nodes(nodes) == FormatAll("get_formatted_nodes", nodes)

(***************************************************************************)
(* The inputs                                                              *)
(***************************************************************************)
MaxPackets == 2   \* packets fed to process_packet in one run
MaxLoaded == 2    \* strings the storage collaborator returns to one listing

PacketOf(kvs) ==
    [p \in PacketPaths |->
        IF \E kv \in kvs : kv[1] = p THEN (CHOOSE kv \in kvs : kv[1] = p)[2] ELSE Absent]

Envelope == {
    <<"from", PyInt(7)>>, <<"fromId", PyStr("!a")>>,
    <<"to", PyInt(9)>>, <<"toId", PyStr("!b")>>,
    <<"rxTime", PyInt(100)>>, <<"rxSnr", PyFloat(5)>>, <<"rxRssi", PyInt(7)>>,
    <<"hopLimit", PyInt(5)>>, <<"raw", PyStr("raw")>>, <<"decoded", Map>> }

NodePacket == PacketOf(Envelope \cup {
    <<"decoded.portnum", PyStr("NODEINFO_APP")>>, <<"decoded.user", Map>>,
    <<"decoded.user.id", PyStr("!a")>>, <<"decoded.user.longName", PyStr("Alice")>>,
    <<"decoded.user.shortName", PyStr("Al")>>, <<"decoded.user.macaddr", PyStr("mac")>>,
    <<"decoded.user.hwModel", PyStr("TBEAM")>>, <<"decoded.user.raw", PyStr("raw")>> })

TextPacket == PacketOf(Envelope \cup {
    <<"decoded.portnum", PyStr("TEXT_MESSAGE_APP")>>, <<"decoded.text", PyStr("hi")>> })

TelemetryPacket == PacketOf(Envelope \cup {
    <<"decoded.portnum", PyStr("TELEMETRY_APP")>>, <<"decoded.telemetry", Map>>,
    <<"decoded.telemetry.deviceMetrics", Map>>,
    <<"decoded.telemetry.deviceMetrics.batteryLevel", PyInt(100)>>,
    <<"decoded.telemetry.deviceMetrics.voltage", PyFloat(3)>>,
    <<"decoded.telemetry.deviceMetrics.channelUtilization", PyFloat(5)>>,
    <<"decoded.telemetry.deviceMetrics.airUtilTx", PyFloat(0)>>,
    <<"decoded.telemetry.deviceMetrics.uptimeSeconds", PyInt(9)>> })

WaypointPacket == PacketOf(Envelope \cup {
    <<"decoded.portnum", PyStr("WAYPOINT_APP")>>, <<"decoded.text", PyStr("hi")>> })

BasePackets == {NodePacket, TextPacket, TelemetryPacket, WaypointPacket}

OptionalKeys == {"rxSnr", "rxRssi", "hopLimit"}
Without(pkt, keys) == [p \in PacketPaths |-> IF p \in keys THEN Absent ELSE pkt[p]]

\* The values a key of a packet is varied over: missing, None, a number, a
\* numeral, a string that is no numeral.
Variations == {Absent, None, PyInt(7), PyFloat(5), PyStr("7"), PyStr("x")}

Present(pkt) == {p \in PacketPaths : pkt[p].tag # "absent"}

\* A base packet, any of its optional keys left out, one key varied.
Packets ==
    {Without(b, ks) : b \in BasePackets, ks \in SUBSET OptionalKeys}
    \cup UNION {{[Without(b, ks) EXCEPT ![p] = v] : p \in Present(b), v \in Variations} :
                    b \in BasePackets, ks \in SUBSET OptionalKeys}

\* The packets of the dispatcher's runs: a base packet with all or none of
\* its optional keys, or with one of these keys missing or None.
FaultSites == {"decoded", "decoded.portnum", "decoded.user", "decoded.user.longName",
               "decoded.text", "from", "fromId", "rxTime", "rxSnr"}
Faults == {Absent, None}
DispatchPackets ==
    {Without(b, ks) : b \in BasePackets, ks \in {{}, OptionalKeys}}
    \cup UNION {{[b EXCEPT ![p] = v] : p \in Present(b) \cap FaultSites, v \in Faults} :
                    b \in {NodePacket, TextPacket}}

\* The packets normalized again and again.
RepeatPackets ==
    {Without(b, ks) : b \in BasePackets \ {WaypointPacket}, ks \in {{}, OptionalKeys}}
    \cup {[b EXCEPT !["from"] = Absent] : b \in BasePackets \ {WaypointPacket}}
    \cup {[b EXCEPT !["rxTime"] = PyStr("7")] : b \in BasePackets \ {WaypointPacket}}

Clock == {"T1", "T2"}           \* what datetime.now().isoformat() may give
Hints == {"text", "node"}       \* the packet_type of the callers
StoreErrors == {"", "ConnectionError"}

\* What the storage collaborator may hold: records the dispatcher stored,
\* texts that are no JSON, and JSON texts that are no such record.
StoredStrings == {
    json_dumps(_process_textmessage(TextPacket, "T1").rec),
    json_dumps(_process_textmessage(Without(TextPacket, OptionalKeys), "T2").rec),
    json_dumps(_process_nodeinfo(NodePacket, "T1").rec),
    <<>>,
    <<LBrace>>,
    <<LBrace, KeyTok("timestamp")>>,
    <<Tok("junk", "", 0)>>,
    <<LBrace, RBrace>>,
    <<Tok("null", "", 0)>>,
    <<LBrace, KeyTok("timestamp"), Tok("str", "T1", 0), KeyTok("from_id"), Tok("str", "!a", 0),
      KeyTok("user"), Tok("str", "Alice", 0), RBrace>> }

RECURSIVE SeqsUpTo(_, _)
SeqsUpTo(S, n) ==
    IF n = 0 THEN {<<>>}
    ELSE SeqsUpTo(S, n - 1) \cup {Append(q, x) : q \in SeqsUpTo(S, n - 1), x \in S}

(***************************************************************************)
(* The state machine                                                       *)
(***************************************************************************)
NoCall == [op |-> "init", packet |-> NodePacket, ret |-> Raises("")]

Idle ==
    /\ op = "init"
    /\ packet_type = ""
    /\ ret = Raises("")
    /\ outcome = ""
    /\ writes = <<>>
    /\ n_packets = 0 /\ n_good = 0 /\ n_writes = 0
    /\ loaded = <<>>
    /\ shown = [exc |-> "", none |-> TRUE, proj |-> NoDisplay, formatted |-> <<>>]
    /\ store_raised = ""
    /\ earlier = NoCall

Init == Idle /\ packet = NodePacket

\* The required keys are there, int() accepts what the integer ones hold,
\* and float() / int() accept what the optional ones hold when they are there.
Coercible(pkt, ints, strs) ==
    /\ \A p \in ints \cup strs : Subscript(PacketKeys, pkt, p).exc = ""
    /\ \A p \in ints : py_int(pkt[p]).exc = ""
    /\ pkt["rxSnr"].tag # "absent" => py_float(pkt["rxSnr"]).exc = ""
    /\ \A p \in {"rxRssi", "hopLimit"} : pkt[p].tag # "absent" => py_int(pkt[p]).exc = ""

NodeInfoRequired == {"fromId", "decoded.user.id", "decoded.user.longName",
                     "decoded.user.shortName", "decoded.user.macaddr",
                     "decoded.user.hwModel", "decoded.user.raw", "raw"}
TextRequired == {"fromId", "toId", "decoded.text", "raw"}

\* A packet the dispatcher recognizes and its normalizer can convert.
WellFormed(pkt) ==
    \/ /\ pkt["decoded"].tag = "map"
       /\ pkt["decoded.portnum"] = PyStr("NODEINFO_APP")
       /\ pkt["decoded.user"].tag = "map"
       /\ Coercible(pkt, {"from", "rxTime"}, NodeInfoRequired)
    \/ /\ pkt["decoded"].tag = "map"
       /\ pkt["decoded.portnum"] = PyStr("TEXT_MESSAGE_APP")
       /\ Coercible(pkt, {"from", "to", "rxTime"}, TextRequired)

\* Every call of process_packet the runs make, with what it does.
Calls ==
    {[pkt |-> pkt, hint |-> hint, store_exc |-> store_exc,
      good |-> WellFormed(pkt),
      result |-> process_packet(pkt, hint, now, store_exc)] :
        pkt \in DispatchPackets, hint \in Hints, now \in Clock, store_exc \in StoreErrors}

\* One packet of the ingestion stream goes through process_packet.
ProcessPacket ==
    /\ n_packets < MaxPackets
    /\ \E call \in Calls :
        /\ op' = "process_packet"
        /\ packet' = call.pkt
        /\ packet_type' = call.hint
        /\ outcome' = call.result.exc
        /\ writes' = call.result.writes
        /\ store_raised' = IF call.result.writes = <<>> THEN "" ELSE call.store_exc
        /\ n_packets' = n_packets + 1
        /\ n_good' = n_good + (IF call.good THEN 1 ELSE 0)
        /\ n_writes' = n_writes + Len(call.result.writes)
        /\ UNCHANGED <<ret, loaded, shown, earlier>>

\* The message just stored is read back and formatted for display.
FormatStoredMessage ==
    /\ op = "process_packet"
    /\ writes # <<>>
    /\ writes[1].store = "store_message"
    /\ store_raised = ""
    /\ LET r == format_message_for_display(writes[1].data)
       IN  /\ op' = "format_message_for_display"
           /\ loaded' = <<writes[1].data>>
           /\ shown' = [exc |-> r.exc, none |-> r.none, proj |-> r.proj, formatted |-> <<>>]
    /\ UNCHANGED <<packet, packet_type, ret, outcome, writes, store_raised,
                   n_packets, n_good, n_writes, earlier>>

Next == ProcessPacket \/ FormatStoredMessage

Spec == Init /\ [][Next]_vars

(***************************************************************************)
(* The normalizers on their own, each applied to one packet                *)
(***************************************************************************)
InitNorm == Idle /\ packet \in Packets

others == <<packet, packet_type, outcome, writes, n_packets, n_good, n_writes,
            loaded, shown, store_raised, earlier>>

ExtractMetrics ==
    /\ op' = "_extract_metrics"
    /\ ret' = _extract_metrics(packet)
    /\ UNCHANGED others

NormalizeNodeInfo ==
    \E now \in Clock :
        /\ op' = "_process_nodeinfo"
        /\ ret' = _process_nodeinfo(packet, now)
        /\ UNCHANGED others

NormalizeTextMessage ==
    \E now \in Clock :
        /\ op' = "_process_textmessage"
        /\ ret' = _process_textmessage(packet, now)
        /\ UNCHANGED others

NormalizeDeviceTelemetry ==
    \E now \in Clock :
        /\ op' = "_process_device_telemetry"
        /\ ret' = _process_device_telemetry(packet, now)
        /\ UNCHANGED others

NextNorm ==
    \/ ExtractMetrics
    \/ NormalizeNodeInfo
    \/ NormalizeTextMessage
    \/ NormalizeDeviceTelemetry

SpecNorm == InitNorm /\ [][NextNorm]_vars

(***************************************************************************)
(* The normalizers called again and again, on any packets in any order     *)
(***************************************************************************)
Normalizers == {"_process_nodeinfo", "_process_textmessage", "_process_device_telemetry"}

Normalize(name, pkt, now) ==
    CASE name = "_process_nodeinfo"    -> _process_nodeinfo(pkt, now)
      [] name = "_process_textmessage" -> _process_textmessage(pkt, now)
      [] OTHER                         -> _process_device_telemetry(pkt, now)

\* Every normalizer call these runs make, with what it returns.
Normalizations ==
    {[op |-> name, packet |-> pkt, ret |-> Normalize(name, pkt, now)] :
        name \in Normalizers, pkt \in RepeatPackets, now \in Clock}

\* One more call; the call before it is remembered, or the one remembered is kept.
Called(call, keep) ==
    /\ op' = call.op
    /\ packet' = call.packet
    /\ ret' = call.ret
    /\ earlier' = IF keep THEN earlier ELSE [op |-> op, packet |-> packet, ret |-> ret]
    /\ UNCHANGED <<packet_type, outcome, writes, n_packets, n_good, n_writes,
                   loaded, shown, store_raised>>

AgainNodeInfo ==
    \E call \in Normalizations, keep \in BOOLEAN :
        /\ call.op = "_process_nodeinfo"
        /\ Called(call, keep)

AgainTextMessage ==
    \E call \in Normalizations, keep \in BOOLEAN :
        /\ call.op = "_process_textmessage"
        /\ Called(call, keep)

AgainDeviceTelemetry ==
    \E call \in Normalizations, keep \in BOOLEAN :
        /\ call.op = "_process_device_telemetry"
        /\ Called(call, keep)

NextRepeat == AgainNodeInfo \/ AgainTextMessage \/ AgainDeviceTelemetry

SpecRepeat == Init /\ [][NextRepeat]_vars

(***************************************************************************)
(* The display operations on what the storage collaborator returns         *)
(***************************************************************************)
\* Every listing these runs ask for, with what it returns.
Listings ==
    {[op |-> "get_formatted_messages", loaded |-> items, r |-> get_formatted_messages(items)] :
        items \in SeqsUpTo(StoredStrings, MaxLoaded)}
    \cup
    {[op |-> "get_formatted_nodes", loaded |-> items, r |-> get_formatted_nodes(items)] :
        items \in SeqsUpTo(StoredStrings, MaxLoaded)}

Listed(l) ==
    /\ op' = l.op
    /\ loaded' = l.loaded
    /\ outcome' = l.r.exc
    /\ shown' = [exc |-> l.r.exc, none |-> FALSE, proj |-> NoDisplay,
                 formatted |-> l.r.formatted]
    /\ UNCHANGED <<packet, packet_type, ret, writes, n_packets, n_good, n_writes,
                   store_raised, earlier>>

GetFormattedMessages ==
    \E l \in Listings :
        /\ l.op = "get_formatted_messages"
        /\ Listed(l)

GetFormattedNodes ==
    \E l \in Listings :
        /\ l.op = "get_formatted_nodes"
        /\ Listed(l)

FormattedOne(json_str, r) ==
    /\ loaded' = <<json_str>>
    /\ outcome' = r.exc
    /\ shown' = [exc |-> r.exc, none |-> r.none, proj |-> r.proj, formatted |-> <<>>]
    /\ UNCHANGED <<packet, packet_type, ret, writes, n_packets, n_good, n_writes,
                   store_raised, earlier>>

FormatMessage ==
    \E json_str \in StoredStrings :
        /\ op' = "format_message_for_display"
        /\ FormattedOne(json_str, format_message_for_display(json_str))

FormatNode ==
    \E json_str \in StoredStrings :
        /\ op' = "format_node_for_display"
        /\ FormattedOne(json_str, format_node_for_display(json_str))

NextDisplay == GetFormattedMessages \/ GetFormattedNodes \/ FormatMessage \/ FormatNode

SpecDisplay == Init /\ [][NextDisplay]_vars

(***************************************************************************)
(* Properties                                                              *)
(***************************************************************************)
Portnum(pkt) == Subscript(PacketKeys, pkt, "decoded.portnum")
IsPortnum(pkt, name) == Portnum(pkt).exc = "" /\ Portnum(pkt).val = PyStr(name)
Untimed(rec) == Store(rec, "timestamp", Absent)

\* C1: process_packet writes to the store only a record its normalizer built
\* in full and validate_typed_dict accepted: what store_node / store_message
\* is given is the serialization of the record the normalizer returned for
\* this packet, it satisfies the shape, and when the normalizer raises no
\* store operation is invoked.
C1_StoreOnlyValidated ==
    op = "process_packet" =>
        /\ \A i \in DOMAIN writes :
            LET stored == json_loads(writes[i].data)
            IN  /\ stored.exc = "" /\ stored.top = "object"
                /\ \/ /\ writes[i].store = "store_node"
                      /\ validate_typed_dict(stored.data, NodeInfo) = ""
                      /\ \E now \in Clock : _process_nodeinfo(packet, now) = Return(stored.data)
                   \/ /\ writes[i].store = "store_message"
                      /\ validate_typed_dict(stored.data, TextMessage) = ""
                      /\ \E now \in Clock : _process_textmessage(packet, now) = Return(stored.data)
        /\ (IsPortnum(packet, "NODEINFO_APP")
                /\ \A now \in Clock : _process_nodeinfo(packet, now).exc # "") => writes = <<>>
        /\ (IsPortnum(packet, "TEXT_MESSAGE_APP")
                /\ \A now \in Clock : _process_textmessage(packet, now).exc # "") => writes = <<>>

\* A NODEINFO_APP packet without decoded.user.longName went through
\* process_packet and no store operation was invoked.
C1_Witness ==
    /\ op = "process_packet"
    /\ IsPortnum(packet, "NODEINFO_APP")
    /\ packet["decoded.user"].tag = "map"
    /\ packet["decoded.user.longName"].tag = "absent"
    /\ writes = <<>>

\* C2: process_packet returns normally whatever the packet and whatever the
\* storage collaborator does: no exception leaves it.
C2_ReturnsNormally == op = "process_packet" => outcome = ""

\* The storage collaborator raised inside process_packet.
C2_Witness ==
    /\ op = "process_packet"
    /\ writes # <<>>
    /\ store_raised = "ConnectionError"

\* C3: over a stream of packets, each well-formed NODEINFO_APP or
\* TEXT_MESSAGE_APP packet causes exactly one storage write and every other
\* packet none, so the writes so far equal the well-formed recognized
\* packets so far, wherever the bad packets were.
C3_OneWritePerGoodPacket ==
    /\ n_writes = n_good
    /\ op = "process_packet" => Len(writes) = (IF WellFormed(packet) THEN 1 ELSE 0)

\* A well-formed packet was written once right after a packet that was not.
C3_Witness ==
    /\ op = "process_packet"
    /\ n_packets = 2 /\ n_good = 1 /\ n_writes = 1
    /\ WellFormed(packet)
    /\ Len(writes) = 1

StoresOf(ws) == [i \in DOMAIN ws |->
                    [store |-> ws[i].store, rec |-> Untimed(json_loads(ws[i].data).data)]]

\* C4: the route is decided by decoded.portnum alone: NODEINFO_APP writes
\* with store_node only, TEXT_MESSAGE_APP with store_message only, any other
\* portnum writes nothing and raises nothing; and every call with the same
\* packet, whatever its packet_type, makes the same store calls with the same
\* records but for the timestamp.
C4_RoutesOnPortnum ==
    op = "process_packet" =>
        /\ IsPortnum(packet, "NODEINFO_APP") => \A i \in DOMAIN writes : writes[i].store = "store_node"
        /\ IsPortnum(packet, "TEXT_MESSAGE_APP") => \A i \in DOMAIN writes : writes[i].store = "store_message"
        /\ (Portnum(packet).exc = ""
                /\ Portnum(packet).val \notin {PyStr("NODEINFO_APP"), PyStr("TEXT_MESSAGE_APP")})
            => writes = <<>> /\ outcome = ""
        /\ \A call \in {c \in Calls : c.pkt = packet} :
                StoresOf(call.result.writes) = StoresOf(writes)

\* A TEXT_MESSAGE_APP packet given with the hint "node" was stored as a message.
C4_Witness ==
    /\ op = "process_packet"
    /\ packet_type = "node"
    /\ IsPortnum(packet, "TEXT_MESSAGE_APP")
    /\ writes # <<>>
    /\ writes[1].store = "store_message"

NodeInfoKeys == NodeInfoRequired \cup {"from", "rxTime"}
AllPresent(pkt, keys) == \A p \in keys : Subscript(PacketKeys, pkt, p).exc = ""

\* C5 as stated: a NODEINFO_APP packet with every required field present is
\* normalized without an exception into a record that passes validation.
C5_PresentSuffices ==
    (op = "_process_nodeinfo" /\ IsPortnum(packet, "NODEINFO_APP")
        /\ AllPresent(packet, NodeInfoKeys))
    => ret.exc = "" /\ validate_typed_dict(ret.rec, NodeInfo) = ""

\* C5 amended: a NODEINFO_APP packet with every required field present, with
\* from and rxTime convertible by int(), and with each of rxSnr, rxRssi and
\* hopLimit either missing or convertible (by float(), int(), int()), is
\* normalized without an exception into a record that passes validation.
C5_PresentAndCoercible ==
    (op = "_process_nodeinfo" /\ IsPortnum(packet, "NODEINFO_APP")
        /\ Coercible(packet, {"from", "rxTime"}, NodeInfoRequired))
    => ret.exc = "" /\ validate_typed_dict(ret.rec, NodeInfo) = ""

\* A NODEINFO_APP packet whose `from` is a numeral string was normalized.
C5_Witness ==
    /\ op = "_process_nodeinfo"
    /\ IsPortnum(packet, "NODEINFO_APP")
    /\ packet["from"] = PyStr("7")
    /\ ret.exc = ""
    /\ ret.rec["from_num"] = PyInt(7)

\* What the claim has a listing return: the projection of each item that
\* parses as JSON, in stored order, the others skipped.
RECURSIVE Projections(_, _)
Projections(name, items) ==
    IF items = <<>> THEN <<>>
    ELSE (IF json_loads(Head(items)).exc # "" THEN <<>> ELSE <<Format(name, Head(items)).proj>>)
         \o Projections(name, Tail(items))

\* C6 as stated: a formatter given a string that does not parse returns None
\* and raises nothing, and a listing, whatever strings the storage
\* collaborator returned, raises nothing and returns the projections of the
\* items that could be formatted, in stored order.
C6_BadItemNeverStopsOthers ==
    /\ (op \in {"format_message_for_display", "format_node_for_display"}
            /\ json_loads(loaded[1]).exc # "") => shown.none /\ shown.exc = ""
    /\ op = "get_formatted_messages" =>
            outcome = "" /\ shown.formatted = Projections("get_formatted_messages", loaded)
    /\ op = "get_formatted_nodes" =>
            outcome = "" /\ shown.formatted = Projections("get_formatted_nodes", loaded)

\* C7 as stated: the message formatter, given the serialization of the
\* record stored for packet p, returns the record's timestamp with
\* from = p.fromId, to = p.toId and text = p.decoded.text.
C7_RoundTripIsPacketFields ==
    op = "format_message_for_display" =>
        /\ shown.exc = "" /\ ~shown.none
        /\ shown.proj["timestamp"] = json_loads(loaded[1]).data["timestamp"]
        /\ shown.proj["from"] = packet["fromId"]
        /\ shown.proj["to"] = packet["toId"]
        /\ shown.proj["text"] = packet["decoded.text"]

\* C7 amended: the message formatter, given the serialization of the record
\* stored for packet p, returns the record's timestamp with
\* from = str(p.fromId), to = str(p.toId) and text = str(p.decoded.text)
\* (the packet's own values when they are strings); it never returns None
\* and never raises.
C7_RoundTripIsCoercedFields ==
    op = "format_message_for_display" =>
        /\ shown.exc = "" /\ ~shown.none
        /\ shown.proj["timestamp"] = json_loads(loaded[1]).data["timestamp"]
        /\ shown.proj["timestamp"] \in {PyStr(now) : now \in Clock}
        /\ shown.proj["from"] = py_str(packet["fromId"]).val
        /\ shown.proj["to"] = py_str(packet["toId"]).val
        /\ shown.proj["text"] = py_str(packet["decoded.text"]).val
        /\ \A k \in {"from", "to", "text"} : shown.proj[k].tag = "str"
        /\ \A k \in {"id", "name"} : shown.proj[k] = Absent

\* The stored message of a packet whose fromId is None was formatted.
C7_Witness ==
    /\ op = "format_message_for_display"
    /\ packet["fromId"] = None
    /\ shown.proj["from"] = PyStr("None")
    /\ shown.proj["to"] = packet["toId"]

IsZero(v) == v.tag \in {"int", "float"} /\ v.n = 0

\* A telemetry packet whose required values have the declared types.
TelemetryTyped(pkt) ==
    /\ AllPresent(pkt, {"from", "fromId", "rxTime", "raw",
                        "decoded.telemetry.deviceMetrics.batteryLevel",
                        "decoded.telemetry.deviceMetrics.voltage",
                        "decoded.telemetry.deviceMetrics.airUtilTx",
                        "decoded.telemetry.deviceMetrics.uptimeSeconds"})
    /\ \A p \in {"from", "rxTime", "decoded.telemetry.deviceMetrics.batteryLevel",
                 "decoded.telemetry.deviceMetrics.uptimeSeconds"} : pkt[p].tag = "int"
    /\ \A p \in {"decoded.telemetry.deviceMetrics.voltage",
                 "decoded.telemetry.deviceMetrics.airUtilTx"} : pkt[p].tag = "float"
    /\ pkt["decoded.telemetry.deviceMetrics.channelUtilization"].tag \in {"absent", "float"}
    /\ pkt["hopLimit"].tag \in {"absent", "int"}

\* C8: a record of _process_nodeinfo or _process_textmessage has rx_snr = 0
\* and rx_rssi = 0 where the packet has no rxSnr / rxRssi and hop_limit = 3
\* where it has no hopLimit; a record of _process_device_telemetry has None
\* there instead of 0 and passes DeviceTelemetry validation, and such a
\* record is returned for every well-typed telemetry packet without rxSnr
\* and rxRssi.
C8_ZeroVersusAbsent ==
    /\ (op \in {"_process_nodeinfo", "_process_textmessage"} /\ ret.exc = "") =>
        /\ packet["rxSnr"].tag = "absent" => IsZero(ret.rec["metrics.rx_snr"])
        /\ packet["rxRssi"].tag = "absent" => IsZero(ret.rec["metrics.rx_rssi"])
        /\ packet["hopLimit"].tag = "absent" => ret.rec["metrics.hop_limit"] = PyInt(3)
    /\ (op = "_process_device_telemetry" /\ ret.exc = "") =>
        /\ packet["rxSnr"].tag = "absent" => ret.rec["metrics.rx_snr"] = None
        /\ packet["rxRssi"].tag = "absent" => ret.rec["metrics.rx_rssi"] = None
        /\ validate_typed_dict(ret.rec, DeviceTelemetry) = ""
    /\ (op = "_process_device_telemetry" /\ TelemetryTyped(packet)
            /\ packet["rxSnr"].tag = "absent" /\ packet["rxRssi"].tag = "absent") =>
        ret.exc = ""

\* A telemetry packet without rxSnr and rxRssi was normalized.
C8_Witness ==
    /\ op = "_process_device_telemetry"
    /\ packet["rxSnr"].tag = "absent" /\ packet["rxRssi"].tag = "absent"
    /\ ret.exc = ""
    /\ ret.rec["metrics.rx_snr"] = None /\ ret.rec["metrics.rx_rssi"] = None

\* C9: _extract_metrics raises for a packet without rxTime and returns no
\* record; for a packet with rxTime it returns rx_time = rxTime, rx_snr =
\* rxSnr or None when missing, rx_rssi = rxRssi or None when missing,
\* hop_limit = hopLimit or 3 when missing.
C9_ExtractMetricsDefaults ==
    op = "_extract_metrics" =>
        IF packet["rxTime"].tag = "absent"
        THEN ret.exc # "" /\ ret.rec = NoRecord
        ELSE /\ ret.exc = ""
             /\ ret.rec["metrics.rx_time"] = packet["rxTime"]
             /\ ret.rec["metrics.rx_snr"] =
                    (IF packet["rxSnr"].tag = "absent" THEN None ELSE packet["rxSnr"])
             /\ ret.rec["metrics.rx_rssi"] =
                    (IF packet["rxRssi"].tag = "absent" THEN None ELSE packet["rxRssi"])
             /\ ret.rec["metrics.hop_limit"] =
                    (IF packet["hopLimit"].tag = "absent" THEN PyInt(3) ELSE packet["hopLimit"])

\* _extract_metrics was given a packet that has rxTime = 100 and none of
\* the optional keys.
C9_Witness ==
    /\ op = "_extract_metrics"
    /\ packet["rxTime"] = PyInt(100)
    /\ \A p \in OptionalKeys : packet[p].tag = "absent"
    /\ ret.rec["metrics.rx_snr"] = None
    /\ ret.rec["metrics.hop_limit"] = PyInt(3)

\* C10: a normalizer called on a packet it was called on before, whatever
\* was normalized in between, raises if it raised then and otherwise returns
\* a record equal to the earlier one in every field but timestamp.
C10_SameButTimestamp ==
    (op \in Normalizers /\ earlier.op = op /\ earlier.packet = packet) =>
        /\ (earlier.ret.exc = "") = (ret.exc = "")
        /\ Untimed(earlier.ret.rec) = Untimed(ret.rec)

\* The same packet was normalized again at another time, successfully.
C10_Witness ==
    /\ op \in Normalizers /\ earlier.op = op /\ earlier.packet = packet
    /\ ret.exc = ""
    /\ earlier.ret.rec["timestamp"] # ret.rec["timestamp"]

====
